---- MODULE Spec2Model ----
(***************************************************************************)
(* fltk-webview (src/src/lib.rs): the Webview wrapper over the native      *)
(* webview C API, embedded in an fltk window.                              *)
(*                                                                         *)
(* The state is the toolkit window the webview is embedded in, the process *)
(* environment read by win_manager, the Webview value (the handle in its   *)
(* Arc and the Arc's strong count), the boxed closures handed across the   *)
(* FFI boundary, and the native side as far as the wrapper drives it: the  *)
(* log of foreign calls in call order, the dispatch queue, the bindings,   *)
(* the scripts handed to webview_eval, and the event loop.                 *)
(***************************************************************************)
EXTENDS Naturals, Sequences, FiniteSets

\* ---------------------------------------------------------------- bounds
\* calls made by the application and the user after create: wrapper calls,
\* clones, hides, resizes, close requests
MaxOps == 2
\* calls of bound functions made by the page's script
MaxInvokes == 2

\* ------------------------------------------------------------- constants
\* enum SizeHint (#[repr(i32)])
SizeHintNone == 0
SizeHintMin == 1
SizeHintMax == 2
SizeHintFixed == 3
\* the hints argument of the draw callbacks' webview_set_size(inner, w, h, 0)
DrawHint == 0
NULL == 0                      \* a null webview_t / no Webview value
Handles == {1}                 \* the non-null handles webview_create may return
Threads == {"main", "worker"}  \* Webview is Send + Sync
LoopThread == "main"           \* the thread that calls run() and owns the event loop
OSes == {"linux", "windows", "macos"}

\* Strings are sequences of bytes.  A Rust &str may hold an interior NUL.
Strs == {<<97>>, <<97, 0, 98>>}
\* C strings the native side passes to a bind callback (NUL-terminated, UTF-8).
CStrs == {<<49>>, <<50>>}
Names == {<<102>>}
Sizes == {<<790, 590>>, <<400, 300>>}
\* the (size, hints) arguments set_size is called with
SizeArgs == {<<<<400, 300>>, SizeHintNone>>, <<<<790, 590>>, SizeHintFixed>>}
Statuses == {0}
\* create(false, ..) as in the usage example: debug as i32
Debugs == {0}

\* Process names as sequences of characters.
GnomeSession == <<"g", "n", "o", "m", "e", "-", "s", "e", "s", "s", "i", "o", "n">>
KSmServer == <<"k", "s", "m", "s", "e", "r", "v", "e", "r">>
\* ps prints at most 15 characters of the name: gnome-session-binary
GnomeOut == [ok |-> TRUE, stdout |-> GnomeSession \o <<"-", "b">>]
OtherOut == [ok |-> TRUE, stdout |-> KSmServer]
PsFailed == [ok |-> FALSE, stdout |-> << >>]
\* the environments create runs in: SESSION_MANAGER set or not, and what
\* `ps -p <pid> -o comm=` gives
Envs ==
    { [sm |-> FALSE, ps |-> GnomeOut],
      [sm |-> TRUE, ps |-> PsFailed],
      [sm |-> TRUE, ps |-> GnomeOut],
      [sm |-> TRUE, ps |-> OtherOut] }

VARIABLES
    os,        \* target_os of the build
    env,       \* [sm: SESSION_MANAGER is set, ps: outcome of `ps -p pid -o comm=`]
    win,       \* the fltk window passed to create
    embedded,  \* whether win has a parent window
    topCb,     \* whether the close callback is installed on the parent/top window
    proc,      \* "alive" | "panicked" | "exited"
    panicAt,   \* where the process panicked
    inner,     \* the handle stored in the Webview's Arc (NULL: no Webview value)
    clones,    \* Arc::strong_count: live Webview values sharing the Arc
    ffi,       \* foreign calls made, in order
    api,       \* wrapper calls made, in order
    loop,      \* "notrun" | "running"
    idleCb,    \* whether cb is registered as a GTK idle source
    pendingEv, \* toolkit events posted and not yet processed
    heap,      \* the boxed closures
    nextId,    \* closures boxed so far
    dq,        \* the native dispatch queue: <<handle, closure>>
    bindings,  \* name -> closure registered with webview_bind
    jsq,       \* scripts handed to webview_eval, not evaluated yet
    evaluated, \* scripts evaluated, in order
    invoked,   \* invocations of bound functions from script, in order
    nops       \* calls counted against MaxOps

vars == <<os, env, win, embedded, topCb, proc, panicAt, inner, clones, ffi, api,
          loop, idleCb, pendingEv, heap, nextId, dq, bindings, jsq, evaluated,
          invoked, nops>>

winVars == <<win, embedded, topCb>>
envVars == <<os, env>>
wvVars == <<inner, clones>>
closureVars == <<heap, nextId, dq, bindings, invoked>>
jsVars == <<jsq, evaluated>>
procVars == <<proc, panicAt>>

Ids == 1..MaxOps
NoClosure ==
    [kind |-> "none", cell |-> "unalloc", runs |-> 0, state |-> 0, by |-> "none",
     on |-> "none", h |-> NULL, got |-> NULL, args |-> <<>>, uaf |-> FALSE]

Call(by, fn, h, a) == [by |-> by, fn |-> fn, h |-> h, a |-> a]

\* ---------------------------------------------------------------- helpers
RECURSIVE nul_position(_)
\* the index (from 0) of the first NUL byte of s; Len(s) when there is none
nul_position(s) ==
    IF s = <<>> THEN 0
    ELSE IF Head(s) = 0 THEN 0
    ELSE 1 + nul_position(Tail(s))

\* FlString::safe_new: CString::new(s), or on an interior NUL the bytes before it
safe_new(s) ==
    IF \A i \in 1..Len(s) : s[i] # 0 THEN s
    ELSE SubSeq(s, 1, nul_position(s))

\* str::contains
Contains(hay, needle) ==
    \E i \in 0..Len(hay) :
        /\ i + Len(needle) <= Len(hay)
        /\ SubSeq(hay, i + 1, i + Len(needle)) = needle

\* the to_str() of a CStr succeeds on UTF-8 (here: ASCII) bytes only
IsUtf8(s) == \A i \in 1..Len(s) : s[i] < 128

\* win_manager(prog): whether the session manager's process name contains prog
win_manager(prog) ==
    IF env.sm
    THEN IF env.ps.ok THEN Contains(env.ps.stdout, prog) ELSE FALSE
    ELSE FALSE

\* mutant: the assertion is missing
AssertShownMissing(w) == TRUE

\* assert!(win.shown())
AssertShown(w) == w.shown

\* what a draw callback installed by create calls, for a window of size sz
DrawCalls(kind, h, sz) ==
    IF kind = "resize_xembed"
    THEN << Call("draw", "webview_set_size", h, <<sz[1], sz[2], DrawHint>>),
            Call("draw", "my_xembed", h, <<"display", "xid", "flxid">>) >>
    ELSE IF kind = "resize"
    THEN << Call("draw", "webview_set_size", h, <<sz[1], sz[2], DrawHint>>) >>
    ELSE << >>

\* mutant: x_init is called whatever the session manager is
LinuxEmbedAlwaysInit(h, sz, drawn) ==
    IF win_manager(GnomeSession)
    THEN [drawCb |-> "resize_xembed",
          calls |-> << Call("create", "x_init", h, <<"display", "xid", "flxid">>) >>
                    \o (IF drawn THEN DrawCalls("resize_xembed", h, sz) ELSE << >>)]
    ELSE [drawCb |-> "resize",
          calls |-> << Call("create", "x_init", h, <<"display", "xid", "flxid">>) >>]

\* create, linux: the embedding strategy.  drawn: whether win.flush() draws.
LinuxEmbed(h, sz, drawn) ==
    IF win_manager(GnomeSession)
    THEN [drawCb |-> "resize_xembed",
          calls |-> IF drawn THEN DrawCalls("resize_xembed", h, sz) ELSE << >>]
    ELSE [drawCb |-> "resize",
          calls |-> << Call("create", "x_init", h, <<"display", "xid", "flxid">>) >>]

Outcome(p, w, t, i, c, h) ==
    [panic |-> p, win |-> w, topCb |-> t, idleCb |-> i, calls |-> c, inner |-> h]

\* create on linux, after win.end() and win.set_color(White); h is what
\* webview_create returns, gdkOk whether my_get_win returns a non-null GdkWindow
CreateLinux(debug, w, h, gdkOk, drawn) ==
    LET c0 == << Call("create", "gtk_init", NULL, <<>>),
                 Call("create", "webview_create", h, <<debug, NULL>>) >>
        c1 == c0 \o << Call("create", "webview_get_window", h, <<>>),
                       Call("create", "my_get_win", h, <<>>) >>
        e == LinuxEmbed(h, w.size, drawn)
        c2 == c1 \o << Call("create", "my_get_xid", h, <<>>) >> \o e.calls
                 \o << Call("create", "g_idle_add", NULL, <<"cb">>) >>
    IN  IF h = NULL THEN Outcome("assert_inner", w, topCb, idleCb, c0, NULL)
        ELSE IF ~gdkOk THEN Outcome("assert_gdk", w, topCb, idleCb, c1, NULL)
        ELSE Outcome("none", [w EXCEPT !.drawCb = e.drawCb], TRUE, TRUE, c2, h)

\* create on windows and macos
CreateOther(debug, w, h) ==
    LET c0 == << Call("create", "webview_create", h, <<debug, "raw_handle">>) >>
        c1 == IF os = "macos"
              THEN c0 \o << Call("create", "webview_get_window", h, <<>>),
                            Call("create", "make_delegate", h, <<>>),
                            Call("create", "webview_get_window", h, <<>>),
                            Call("create", "add_system_handler", h, <<"send_event">>) >>
              ELSE c0
        w1 == [w EXCEPT !.drawCb = "resize"]
    IN  IF ~embedded THEN Outcome("unwrap_parent", w1, topCb, idleCb, c1, NULL)
        ELSE IF h = NULL THEN Outcome("assert_inner", w1, TRUE, idleCb, c1, NULL)
        ELSE Outcome("none", w1, TRUE, idleCb, c1, h)

\* Webview::create(debug, win)
CreateOutcome(debug, h, gdkOk, drawn) ==
    IF ~AssertShown(win)
    THEN Outcome("assert_shown", win, topCb, idleCb, << >>, NULL)
    ELSE LET w == [win EXCEPT !.ended = TRUE, !.color = "White"]
         IN  IF os = "linux" THEN CreateLinux(debug, w, h, gdkOk, drawn)
             ELSE CreateOther(debug, w, h)

Alive == proc = "alive"
\* a Webview value exists to call a method on
HasWebview == Alive /\ inner # NULL /\ clones >= 1

Init ==
    /\ os \in OSes
    /\ env \in Envs
    /\ os # "linux" => env = [sm |-> TRUE, ps |-> PsFailed]
    /\ embedded \in BOOLEAN
    /\ os = "linux" => embedded
    /\ win = [shown |-> FALSE, ended |-> FALSE, color |-> "default",
              drawCb |-> "none", size |-> <<790, 590>>]
    /\ topCb = FALSE
    /\ proc = "alive"
    /\ panicAt = "none"
    /\ inner = NULL
    /\ clones = 0
    /\ ffi = << >>
    /\ api = << >>
    /\ loop = "notrun"
    /\ idleCb = FALSE
    /\ pendingEv = {}
    /\ heap = [i \in Ids |-> NoClosure]
    /\ nextId = 0
    /\ dq = << >>
    /\ bindings = [n \in Names |-> 0]
    /\ jsq = << >>
    /\ evaluated = << >>
    /\ invoked = << >>
    /\ nops = 0

create ==
    /\ Alive
    /\ inner = NULL
    /\ \E debug \in Debugs, h \in Handles \cup {NULL}, gdkOk \in BOOLEAN, drawn \in BOOLEAN :
         LET o == CreateOutcome(debug, h, gdkOk, drawn)
         IN  /\ api' = Append(api, [fn |-> "create", h |-> o.inner])
             /\ ffi' = ffi \o o.calls
             /\ win' = o.win
             /\ topCb' = o.topCb
             /\ idleCb' = o.idleCb
             /\ inner' = o.inner
             /\ clones' = IF o.panic = "none" THEN 1 ELSE clones
             /\ panicAt' = o.panic
             /\ proc' = IF o.panic = "none" THEN "alive" ELSE "panicked"
    /\ UNCHANGED <<os, env, embedded, loop, pendingEv, heap, nextId, dq, bindings,
                   jsq, evaluated, invoked, nops>>


\* ------------------------------------------------- the delegating wrappers
\* a wrapper method called on the Webview: one native call on *self.inner
Delegate(fn, native, a) ==
    /\ HasWebview
    /\ api' = Append(api, [fn |-> fn, h |-> inner])
    /\ ffi' = Append(ffi, Call("api", native, inner, a))

\* Webview::navigate(url)
navigate(url) ==
    /\ nops < MaxOps
    /\ Delegate("navigate", "webview_navigate", <<safe_new(url)>>)
    /\ nops' = nops + 1
    /\ UNCHANGED <<envVars, winVars, procVars, wvVars, loop, idleCb, pendingEv,
                   closureVars, jsVars>>

\* mutant: init calls webview_eval, as eval does
init_calls_eval(js) ==
    /\ nops < MaxOps
    /\ Delegate("init", "webview_eval", <<safe_new(js)>>)
    /\ nops' = nops + 1
    /\ UNCHANGED <<envVars, winVars, procVars, wvVars, loop, idleCb, pendingEv,
                   closureVars, jsVars>>

\* Webview::init(js)
init(js) ==
    /\ nops < MaxOps
    /\ Delegate("init", "webview_init", <<safe_new(js)>>)
    /\ nops' = nops + 1
    /\ UNCHANGED <<envVars, winVars, procVars, wvVars, loop, idleCb, pendingEv,
                   closureVars, jsVars>>

\* mutant: eval waits for the script to be evaluated
eval_sync(js) ==
    /\ nops < MaxOps
    /\ Delegate("eval", "webview_eval", <<safe_new(js)>>)
    /\ evaluated' = Append(evaluated, safe_new(js))
    /\ nops' = nops + 1
    /\ UNCHANGED <<envVars, winVars, procVars, wvVars, loop, idleCb, pendingEv,
                   closureVars, jsq>>

\* Webview::eval(js): webview_eval hands the script to the native webview
eval(js) ==
    /\ nops < MaxOps
    /\ Delegate("eval", "webview_eval", <<safe_new(js)>>)
    /\ jsq' = Append(jsq, safe_new(js))
    /\ nops' = nops + 1
    /\ UNCHANGED <<envVars, winVars, procVars, wvVars, loop, idleCb, pendingEv,
                   closureVars, evaluated>>

\* Webview::return(seq, status, result)
return(seq, status, result) ==
    /\ nops < MaxOps
    /\ Delegate("return", "webview_return", <<safe_new(seq), status, safe_new(result)>>)
    /\ nops' = nops + 1
    /\ UNCHANGED <<envVars, winVars, procVars, wvVars, loop, idleCb, pendingEv,
                   closureVars, jsVars>>

\* Webview::set_size(width, height, hints)
set_size(sz, hints) ==
    /\ nops < MaxOps
    /\ Delegate("set_size", "webview_set_size", <<sz[1], sz[2], hints>>)
    /\ nops' = nops + 1
    /\ UNCHANGED <<envVars, winVars, procVars, wvVars, loop, idleCb, pendingEv,
                   closureVars, jsVars>>

\* Webview::run(): webview_run drives the event loop on the calling thread and
\* does not return while the loop runs
run ==
    /\ loop = "notrun"
    /\ Delegate("run", "webview_run", << >>)
    /\ loop' = "running"
    /\ UNCHANGED <<envVars, winVars, procVars, wvVars, idleCb, pendingEv,
                   closureVars, jsVars, nops>>

\* ------------------------------------------------------- Clone and Drop
\* #[derive(Clone)]: Arc::clone
clone ==
    /\ HasWebview
    /\ nops < MaxOps
    /\ clones' = clones + 1
    /\ nops' = nops + 1
    /\ UNCHANGED <<envVars, winVars, procVars, inner, ffi, api, loop, idleCb,
                   pendingEv, closureVars, jsVars>>

\* what Drop::drop calls on a Webview whose Arc has strong count n when drop runs
DropCalls(h, n) ==
    IF n = 0
    THEN << Call("drop", "webview_terminate", h, << >>),
            Call("drop", "webview_destroy", h, << >>) >>
    ELSE << >>

\* impl Drop for Webview, then the Arc field is dropped
drop ==
    /\ HasWebview
    /\ ffi' = ffi \o DropCalls(inner, clones)
    /\ clones' = clones - 1
    /\ UNCHANGED <<envVars, winVars, procVars, inner, api, loop, idleCb,
                   pendingEv, closureVars, jsVars, nops>>

\* ------------------------------------------------------------- dispatch
\* Webview::dispatch(f), called on thread t: Box::into_raw(Box::new(f)) and
\* webview_dispatch, which queues (callback::<F>, closure) for the loop
dispatch(t) ==
    /\ nops < MaxOps
    /\ Delegate("dispatch", "webview_dispatch", <<nextId + 1>>)
    /\ heap' = [heap EXCEPT ![nextId + 1] =
                  [NoClosure EXCEPT !.kind = "dispatch", !.cell = "live",
                                    !.by = t, !.h = inner]]
    /\ nextId' = nextId + 1
    /\ dq' = Append(dq, <<inner, nextId + 1>>)
    /\ nops' = nops + 1
    /\ UNCHANGED <<envVars, winVars, procVars, wvVars, loop, idleCb, pendingEv,
                   bindings, invoked, jsVars>>

\* mutant: the box is forgotten, as in bind's callback
dispatch_callback_forget(c, webview) ==
    IF c.cell = "live"
    THEN [c EXCEPT !.runs = c.runs + 1, !.on = LoopThread, !.got = webview]
    ELSE [c EXCEPT !.uaf = TRUE]

\* dispatch's callback::<F>(webview, arg): Box::from_raw(arg), call the closure
\* with a Webview made of the handle, and drop the box
dispatch_callback(c, webview) ==
    IF c.cell = "live"
    THEN [c EXCEPT !.runs = c.runs + 1, !.on = LoopThread, !.got = webview,
                   !.cell = "freed"]
    ELSE [c EXCEPT !.uaf = TRUE]

\* the event loop takes the next dispatched function and calls it; the
\* callback's Webview { inner: Arc::new(webview) } is dropped when it returns
NativeDispatchStep ==
    /\ Alive
    /\ loop = "running"
    /\ dq # << >>
    /\ LET webview == Head(dq)[1]
           arg == Head(dq)[2]
       IN  /\ heap' = [heap EXCEPT ![arg] = dispatch_callback(heap[arg], webview)]
           /\ ffi' = ffi \o DropCalls(webview, 1)
    /\ dq' = Tail(dq)
    /\ UNCHANGED <<envVars, winVars, procVars, wvVars, api, loop, idleCb,
                   pendingEv, nextId, bindings, invoked, jsVars, nops>>

\* ----------------------------------------------------------------- bind
\* Webview::bind(name, f): Box::into_raw(Box::new(f)) and webview_bind
bind(name) ==
    /\ nops < MaxOps
    /\ Delegate("bind", "webview_bind", <<safe_new(name), nextId + 1>>)
    /\ heap' = [heap EXCEPT ![nextId + 1] =
                  [NoClosure EXCEPT !.kind = "bind", !.cell = "live", !.h = inner]]
    /\ nextId' = nextId + 1
    /\ bindings' = [bindings EXCEPT ![safe_new(name)] = nextId + 1]
    /\ nops' = nops + 1
    /\ UNCHANGED <<envVars, winVars, procVars, wvVars, loop, idleCb, pendingEv,
                   dq, invoked, jsVars>>

\* mutant: the box is dropped when the callback returns, as in dispatch's
bind_callback_drop(c, seq, req) ==
    IF c.cell = "live"
    THEN [c EXCEPT !.runs = c.runs + 1, !.on = LoopThread, !.got = c.state,
                   !.state = c.state + 1, !.args = <<seq, req>>, !.cell = "freed"]
    ELSE [c EXCEPT !.uaf = TRUE]

\* bind's callback::<F>(seq, req, arg): Box::from_raw(arg), (*f)(seq, req),
\* mem::forget(f).  f counts its calls in its own state.
bind_callback(c, seq, req) ==
    IF c.cell = "live"
    THEN [c EXCEPT !.runs = c.runs + 1, !.on = LoopThread, !.got = c.state,
                   !.state = c.state + 1, !.args = <<seq, req>>]
    ELSE [c EXCEPT !.uaf = TRUE]

\* script calls the global function bound under name; the native webview
\* calls the registered callback with the call's seq and req
ScriptCall(name, seq, req) ==
    /\ Alive
    /\ loop = "running"
    /\ bindings[name] # 0
    /\ Len(invoked) < MaxInvokes
    /\ invoked' = Append(invoked, <<bindings[name], seq, req>>)
    /\ IF IsUtf8(seq) /\ IsUtf8(req)
       THEN /\ heap' = [heap EXCEPT ![bindings[name]] =
                           bind_callback(heap[bindings[name]], seq, req)]
            /\ UNCHANGED procVars
       ELSE /\ proc' = "panicked"
            /\ panicAt' = "expect_utf8"
            /\ UNCHANGED heap
    /\ UNCHANGED <<envVars, winVars, wvVars, ffi, api, loop, idleCb, pendingEv,
                   nextId, dq, bindings, jsVars, nops>>

\* the native webview evaluates the next script handed to webview_eval
NativeEvalStep ==
    /\ Alive
    /\ loop = "running"
    /\ jsq # << >>
    /\ evaluated' = Append(evaluated, Head(jsq))
    /\ jsq' = Tail(jsq)
    /\ UNCHANGED <<envVars, winVars, procVars, wvVars, ffi, api, loop, idleCb,
                   pendingEv, closureVars, nops>>

\* ------------------------------------------------------------ the toolkit
\* win.show() / hide() by the application
Show ==
    /\ Alive
    /\ ~win.shown
    /\ win' = [win EXCEPT !.shown = TRUE]
    /\ UNCHANGED <<envVars, embedded, topCb, procVars, wvVars, ffi, api, loop,
                   idleCb, pendingEv, closureVars, jsVars, nops>>

Hide ==
    /\ Alive
    /\ win.shown
    /\ nops < MaxOps
    /\ win' = [win EXCEPT !.shown = FALSE]
    /\ nops' = nops + 1
    /\ UNCHANGED <<envVars, embedded, topCb, procVars, wvVars, ffi, api, loop,
                   idleCb, pendingEv, closureVars, jsVars>>

\* the window is resized: it is damaged and will be redrawn
Resize(sz) ==
    /\ Alive
    /\ nops < MaxOps
    /\ sz # win.size
    /\ win' = [win EXCEPT !.size = sz]
    /\ pendingEv' = pendingEv \cup {"damage"}
    /\ nops' = nops + 1
    /\ UNCHANGED <<envVars, embedded, topCb, procVars, wvVars, ffi, api, loop,
                   idleCb, closureVars, jsVars>>

\* the user asks the top window to close
CloseRequest ==
    /\ Alive
    /\ nops < MaxOps
    /\ "close" \notin pendingEv
    /\ pendingEv' = pendingEv \cup {"close"}
    /\ nops' = nops + 1
    /\ UNCHANGED <<envVars, winVars, procVars, wvVars, ffi, api, loop, idleCb,
                   closureVars, jsVars>>

\* the close callback create installs: Event::Close => std::process::exit(0)
Exits == "close" \in pendingEv /\ topCb

\* the toolkit processes its pending events: the close callback, then the
\* redraw of a damaged shown window through the draw callback
ProcessEvents ==
    /\ pendingEv' = {}
    /\ proc' = IF Exits THEN "exited" ELSE proc
    /\ ffi' = IF ~Exits /\ "damage" \in pendingEv /\ win.shown
              THEN ffi \o DrawCalls(win.drawCb, inner, win.size)
              ELSE ffi

\* app::check(): true while a toolkit window is shown
app_check == win.shown

\* what GLib reads as a gboolean (an int) from a callback declared to return a
\* Rust bool (one byte): true is non-zero; false leaves the upper bytes of the
\* register unspecified, so the build decides whether GLib sees zero
GBoolean(b) == IF b THEN {TRUE} ELSE {FALSE, TRUE}

\* extern "C" fn cb(_data) -> bool { app::check() }, called by the GTK loop
\* while it is registered; returning false removes the idle source
cb ==
    /\ Alive
    /\ os = "linux"
    /\ loop = "running"
    /\ idleCb
    /\ ProcessEvents
    /\ idleCb' \in GBoolean(app_check)
    /\ UNCHANGED <<envVars, winVars, panicAt, wvVars, api, loop, closureVars,
                   jsVars, nops>>

\* windows, macos: the native loop delivers the window's events to the toolkit
NativeToolkitStep ==
    /\ Alive
    /\ os # "linux"
    /\ loop = "running"
    /\ pendingEv # {}
    /\ ProcessEvents
    /\ UNCHANGED <<envVars, winVars, panicAt, wvVars, api, loop, idleCb,
                   closureVars, jsVars, nops>>

Next ==
    \/ create
    \/ \E s \in Strs : navigate(s)
    \/ \E s \in Strs : init(s)
    \/ \E s \in Strs : eval(s)
    \/ \E s \in Strs, st \in Statuses : return(s, st, s)
    \/ \E a \in SizeArgs : set_size(a[1], a[2])
    \/ run
    \/ clone
    \/ drop
    \/ \E t \in Threads : dispatch(t)
    \/ NativeDispatchStep
    \/ \E n \in Names : bind(n)
    \/ \E n \in Names, seq \in CStrs : ScriptCall(n, seq, <<91>> \o seq \o <<93>>)
    \/ NativeEvalStep
    \/ Show
    \/ Hide
    \/ \E sz \in Sizes : Resize(sz)
    \/ CloseRequest
    \/ cb
    \/ NativeToolkitStep

Spec == Init /\ [][Next]_vars

\* the event loop serves its dispatch queue
FairSpec == Spec /\ WF_vars(NativeDispatchStep)

\* ------------------------------------------------------------ properties
\* this step is a call of the wrapper method fn
Called(fn) == Len(api') = Len(api) + 1 /\ api'[Len(api')].fn = fn

\* C1: a call of create on a window that is not shown panics on the assertion
\* before any foreign call is made and before the window, its callbacks or
\* the idle source are touched, and no Webview value comes into being.
C1_CreateRequiresShown ==
    [][ (Called("create") /\ ~win.shown) =>
           /\ proc' = "panicked"
           /\ panicAt' = "assert_shown"
           /\ ffi' = ffi
           /\ win' = win
           /\ topCb' = topCb
           /\ idleCb' = idleCb
           /\ inner' = NULL
           /\ clones' = 0 ]_vars

C1_Witness ==
    /\ panicAt = "assert_shown"
    /\ api # << >>
    /\ ~win.shown

Queued(i) == \E k \in 1..Len(dq) : dq[k][2] = i

\* what holds of a dispatched closure in every state
DispatchSafe(i) ==
    LET c == heap[i]
    IN  c.kind = "dispatch" =>
          /\ c.runs <= 1
          /\ ~c.uaf
          /\ Queued(i) <=> c.runs = 0
          /\ Queued(i) => c.cell = "live"
          /\ c.runs = 1 => c.on = LoopThread /\ c.got = c.h /\ c.cell = "freed"
          /\ c.cell = "freed" => c.runs = 1

\* C2: a dispatched closure is not run by dispatch itself; it is run at most
\* once, by the thread that owns the event loop, with the handle dispatch was
\* called on, and its box is freed once, after it ran; while the loop runs
\* it is eventually run.
C2_DispatchOnce ==
    /\ [](\A i \in Ids : DispatchSafe(i))
    /\ \A i \in Ids :
         (heap[i].kind = "dispatch" /\ loop = "running")
            ~> (heap[i].runs = 1 \/ ~Alive)

C2_Witness ==
    \E i \in Ids :
        /\ heap[i].kind = "dispatch"
        /\ heap[i].by = "worker"
        /\ heap[i].runs = 1
        /\ heap[i].cell = "freed"
        /\ Alive

\* the invocations of closure i from script, in order
InvokedOf(i) == SelectSeq(invoked, LAMBDA e : e[1] = i)

\* C3: the closure of a bind is called on every invocation of its function
\* with that invocation's seq and req, is never freed and never used after a
\* free, and its n-th call sees the state its calls 1..n-1 left.
C3_BindClosureLives ==
    \A i \in Ids :
        heap[i].kind = "bind" =>
          /\ heap[i].cell = "live"
          /\ ~heap[i].uaf
          /\ heap[i].runs = Len(InvokedOf(i))
          /\ heap[i].state = heap[i].runs
          /\ heap[i].runs > 0 =>
                /\ heap[i].got = heap[i].runs - 1
                /\ heap[i].args = Tail(InvokedOf(i)[heap[i].runs])

C3_Witness ==
    \E i \in Ids :
        /\ heap[i].kind = "bind"
        /\ heap[i].runs = 2
        /\ heap[i].got = 1
        /\ invoked[1][2] # invoked[2][2]

Delegating == {"navigate", "init", "eval", "return", "set_size", "run"}
NativeOf(fn) ==
    CASE fn = "navigate" -> "webview_navigate"
      [] fn = "init" -> "webview_init"
      [] fn = "eval" -> "webview_eval"
      [] fn = "return" -> "webview_return"
      [] fn = "set_size" -> "webview_set_size"
      [] fn = "run" -> "webview_run"
      [] OTHER -> "none"

NativeFns == {NativeOf(g) : g \in Delegating}

\* the native calls made by the delegating wrappers are the wrapper calls, in order
DelegatedInOrder ==
    LET a == SelectSeq(api, LAMBDA e : e.fn \in Delegating)
        f == SelectSeq(ffi, LAMBDA e : e.by = "api" /\ e.fn \in NativeFns)
    IN  /\ Len(f) = Len(a)
        /\ \A k \in 1..Len(a) : f[k].fn = NativeOf(a[k].fn) /\ f[k].h = a[k].h

\* C4: each call of navigate, init, eval, return, set_size and run makes one
\* call of its native function on the stored handle, the native calls are in
\* the order of the wrapper calls, and the stored handle and the number of
\* live clones are left as they were.
C4_PureDelegation ==
    /\ []DelegatedInOrder
    /\ [][ \A fn \in Delegating :
             Called(fn) =>
               /\ ffi' = Append(ffi, ffi'[Len(ffi')])
               /\ ffi'[Len(ffi')].fn = NativeOf(fn)
               /\ ffi'[Len(ffi')].h = inner
               /\ inner' = inner
               /\ clones' = clones ]_vars

C4_Witness ==
    /\ Len(api) >= 4
    /\ api[2].fn = "eval"
    /\ api[3].fn = "run"
    /\ api[4].fn = "set_size"
    /\ Len(SelectSeq(ffi, LAMBDA e : e.by = "draw")) > 0

IsXInit(e) == e.fn = "x_init"
IsXEmbed(e) == e.fn = "my_xembed"
IsDrawResize(e) == e.by = "draw" /\ e.fn = "webview_set_size"

\* the strategy create chose, as the window and the foreign calls show it
EmbedStrategy ==
    (os = "linux" /\ inner # NULL) =>
       /\ win_manager(GnomeSession) =>
            /\ Len(SelectSeq(ffi, IsXInit)) = 0
            /\ win.drawCb = "resize_xembed"
            /\ \A k \in 1..Len(ffi) :
                 IsDrawResize(ffi[k]) => k < Len(ffi) /\ IsXEmbed(ffi[k + 1])
            /\ \A k \in 1..Len(ffi) :
                 IsXEmbed(ffi[k]) => k > 1 /\ IsDrawResize(ffi[k - 1])
       /\ ~win_manager(GnomeSession) =>
            /\ Len(SelectSeq(ffi, IsXInit)) = 1
            /\ win.drawCb = "resize"
            /\ Len(SelectSeq(ffi, IsXEmbed)) = 0

\* C7: on Linux create embeds with one of two strategies: under gnome-session
\* no x_init call is made and every draw resizes the webview to the window's
\* size and then calls my_xembed; otherwise x_init is called once in create
\* and a draw only resizes.  win_manager is false when SESSION_MANAGER is
\* unset or ps fails.
C7_EmbedStrategy ==
    [][ /\ EmbedStrategy'
        /\ (~env.sm \/ ~env.ps.ok) => ~win_manager(GnomeSession)
        /\ \A k \in (Len(ffi) + 1)..Len(ffi') :
             IsDrawResize(ffi'[k]) =>
                /\ ffi'[k].h = inner'
                /\ ffi'[k].a = <<win.size[1], win.size[2], DrawHint>> ]_vars

C7_Witness ==
    /\ os = "linux"
    /\ loop = "running"
    /\ \E k \in 2..Len(ffi) :
         /\ IsXEmbed(ffi[k])
         /\ ffi[k - 1].a = <<400, 300, DrawHint>>
         /\ \E j \in 1..(k - 1) : ffi[j].fn = "webview_run"

====
